---- MODULE Spec2Model ----
(***************************************************************************)
(* Model of the conversation-history pipeline of src/install.ts:           *)
(*   - CONVERTER_SCRIPT (convert-claude-history.sh, lines 21-81): the      *)
(*     bash converter from JSONL session logs to Markdown documents;       *)
(*   - createQmdCollections (lines 446-494): the reconciler of the search  *)
(*     engine's collections against the project output directories.        *)
(* Strings are TLA+ strings; paths, ids and dates are computed with the    *)
(* same substring operations the script uses.                              *)
(***************************************************************************)
EXTENDS Integers, Sequences, FiniteSets, TLC

(* ------------------------------ bounds -------------------------------- *)

\* Converter runs explored in one behaviour.
MaxConvRuns == 2

\* Installer runs (converter, then reconciliation) explored in one behaviour.
MaxInstalls == 1

\* Commands of the search engine that fail in one behaviour.
MaxFailures == 1

\* Last day of the wall clock (the clock starts at day 1).
MaxDays == 2

(* ------------------------- string primitives -------------------------- *)

Char(s, i) == SubSeq(s, i, i)

Min(a, b) == IF a < b THEN a ELSE b

MaxOf(S) == CHOOSE x \in S : \A y \in S : y <= x

MinOf(S) == CHOOSE x \in S : \A y \in S : x <= y

\* bash: [[ "$s" == *"m"* ]]
Contains(s, m) ==
  \E i \in 1..(Len(s) - Len(m) + 1) : SubSeq(s, i, i + Len(m) - 1) = m

\* bash ${s:0:n} and cut -c1-n, jq .[0:n]
Prefix(s, n) == SubSeq(s, 1, Min(n, Len(s)))

EndsWith(s, m) ==
  Len(s) >= Len(m) /\ SubSeq(s, Len(s) - Len(m) + 1, Len(s)) = m

RECURSIVE StripTrailingSlashes(_)
StripTrailingSlashes(p) ==
  IF Len(p) > 1 /\ Char(p, Len(p)) = "/"
  THEN StripTrailingSlashes(SubSeq(p, 1, Len(p) - 1))
  ELSE p

\* basename(1): the final path segment.
Basename(p) ==
  LET q == StripTrailingSlashes(p)
      slashes == {i \in 1..Len(q) : Char(q, i) = "/"}
  IN IF q = "/" \/ slashes = {} THEN q
     ELSE SubSeq(q, MaxOf(slashes) + 1, Len(q))

\* basename "$jsonl" .jsonl
BasenameNoExt(p, ext) ==
  LET b == Basename(p)
  IN IF EndsWith(b, ext) /\ Len(b) > Len(ext)
     THEN SubSeq(b, 1, Len(b) - Len(ext))
     ELSE b

(* ----------------------- the session-log format ----------------------- *)

\* An optional JSON value: <<>> is null/absent, <<v>> is the value v.
Null == <<>>

Some(v) == <<v>>

\* message.content: a string, an array of fragments (each with an optional
\* text), or null.
StrContent(s) == [kind |-> "str", str |-> s, frags |-> <<>>]

ArrContent(fs) == [kind |-> "arr", str |-> "", frags |-> fs]

NullContent == [kind |-> "null", str |-> "", frags |-> <<>>]

\* One line of a session log that parses as a JSON object.
Ev(type, cwd, sid, slug, ts, content) ==
  [ok |-> TRUE, type |-> type, cwd |-> cwd, sessionId |-> sid,
   slug |-> slug, timestamp |-> ts, content |-> content]

\* One line that is not JSON.
Malformed ==
  [ok |-> FALSE, type |-> "", cwd |-> Null, sessionId |-> Null,
   slug |-> Null, timestamp |-> Null, content |-> NullContent]

\* A session log: its file name inside the log group and its lines.
Log(name, lines) == [name |-> name, lines |-> lines]

\* An entry of ~/.claude/projects: a log group (directory) with its *.jsonl
\* files in glob (sorted) order, or a plain file.
Group(dir, sessions) == [dir |-> dir, isDir |-> TRUE, sessions |-> sessions]

PlainFile(name) == [dir |-> name, isDir |-> FALSE, sessions |-> <<>>]

(* ------------------------------ fixtures ------------------------------ *)

Day == <<"2026-11-04", "2026-11-05", "2026-11-06", "2026-11-07">>

UserLine(cwd, sid, ts) ==
  Ev("user", Some(cwd), sid, Null, ts, StrContent("hello"))

AsstLine(cwd, sid, ts) ==
  Ev("assistant", Some(cwd), sid, Some("fix-bug"), ts,
     ArrContent(<<Some("sure"), Null, Some("done")>>))

MetaLine(cwd) ==
  Ev("summary", cwd, Null, Null, Null, NullContent)

\* A well-formed two-event session.
GoodLog(name, cwd, sid, ts) ==
  Log(name, <<UserLine(cwd, sid, ts), AsstLine(cwd, sid, ts)>>)

\* The same session with line l (1 or 2) replaced by text that is not JSON.
BadLog(name, cwd, sid, ts, l) ==
  Log(name, IF l = 1
            THEN <<Malformed, AsstLine(cwd, sid, ts)>>
            ELSE <<UserLine(cwd, sid, ts), Malformed>>)

\* One project with three sessions, the one at position p malformed on
\* line l.
FaultGroup(p, l) ==
  LET S(i, name, sid, ts) ==
        IF i = p THEN BadLog(name, "/w/app", sid, ts, l)
                 ELSE GoodLog(name, "/w/app", sid, ts)
  IN Group("-w-app",
           <<S(1, "11111111-aaaa.jsonl", Some("11111111-aaaa"),
               Some("2024-03-01T09:00:00.000Z")),
             S(2, "22222222-bbbb.jsonl", Some("22222222-bbbb"),
               Some("2024-03-02T09:00:00.000Z")),
             S(3, "33333333-cccc.jsonl", Some("33333333-cccc"),
               Some("2024-03-03T09:00:00.000Z"))>>)

FaultRoots == {<<FaultGroup(p, l)>> : p \in 1..3, l \in 1..2}

\* Three projects with content; the first has the session of the naming
\* fixture, the log of a sub-agent of that session (same session id, same
\* day) and a session whose first event has neither id nor timestamp.
AppGroup ==
  Group("-w-app",
        <<GoodLog("abcdef12-3400.jsonl", "/w/app", Some("abcdef1234"),
                  Some("2024-03-01T10:15:00.000Z")),
          GoodLog("agent-a1b2c3.jsonl", "/w/app", Some("abcdef1234"),
                  Some("2024-03-01T10:20:00.000Z")),
          Log("feedbeef-0001.jsonl",
              <<MetaLine(Null),
                Ev("user", Some("/w/app"), Null, Null, Null,
                   ArrContent(<<Some("tool result")>>)),
                Ev("assistant", Some("/w/app"), Null, Null, Null,
                   StrContent("ok"))>>)>>)

WebGroup ==
  Group("-w-web",
        <<GoodLog("44444444-dddd.jsonl", "/w/web/", Some("44444444-dddd"),
                  Some("2024-04-01T08:00:00.000Z"))>>)

SpaceGroup ==
  Group("-w-my-app",
        <<GoodLog("55555555-eeee.jsonl", "/w/my app", Some("55555555-eeee"),
                  Some("2024-05-01T08:00:00.000Z"))>>)

ThreeProjects == <<AppGroup, SpaceGroup, WebGroup>>

\* Disposable contexts (worktree, sub-agent), entries that are no log group,
\* a group without cwd, and a regular project after them.
WorktreeGroup ==
  Group("-w--ralphy-worktrees-t1",
        <<GoodLog("66666666-ffff.jsonl", "/w/.ralphy-worktrees/t1",
                  Some("66666666-ffff"), Some("2024-06-01T08:00:00.000Z"))>>)

AgentGroup ==
  Group("-w-agent-7",
        <<GoodLog("77777777-0000.jsonl", "/w/agent-7",
                  Some("77777777-0000"), Some("2024-06-02T08:00:00.000Z"))>>)

NoCwdGroup ==
  Group("-w-nocwd", <<Log("88888888-1111.jsonl", <<MetaLine(Null)>>)>>)

EmptyGroup == Group("-w-empty", <<>>)

ExclusionRoot ==
  <<WorktreeGroup, AgentGroup, EmptyGroup, NoCwdGroup, PlainFile("-w-notes.txt"),
    WebGroup>>

LogRoots == FaultRoots \cup {ThreeProjects, ExclusionRoot}

\* The collections registered in the search engine when the model starts,
\* by the project they are named after: two projects a log root holds, one
\* whose directory does not exist.
InitialProjects == {{}, {"app", "old"}, {"my app", "old"}}

\* The log roots and registered collections the model starts from.
Scenarios ==
  (FaultRoots \X {{}, {"app"}})
  \cup ({ThreeProjects} \X InitialProjects)
  \cup ({ExclusionRoot} \X {{}, {"old"}})

(* --------------------------- program constants ------------------------ *)

\* head -5 "$first_jsonl"
HeadLines == 5

\* ${session_id:0:8}, cut -c1-8
ShortIdLen == 8

\* .timestamp[0:10]
DateLen == 10

\* CONVERT_DIR="${HOME}/.claude/converted-history"
CONVERT_DIR == "~/.claude/converted-history"

\* for project_dir in ~/.claude/projects/*
PROJECTS_DIR == "~/.claude/projects"

\* The disposable-context markers of the exclusion test.
WorktreeMarker == ".ralphy-worktrees"

AgentMarker == "/agent-"

(* ------------------------------- state -------------------------------- *)

VARIABLES
  logs,             \* ~/.claude/projects: the entries in glob order
  today,            \* the wall clock's day, an index into Day
  dirs,             \* the directories that exist under (and including) CONVERT_DIR
  files,            \* path |-> content (a sequence of text lines) of each document
  caller,           \* who started the converter last: "installer" (main, step 5), "agent" or "user"
  convPc,           \* converter: "idle", "group", "session", "done", "aborted"
  DRY_RUN,          \* converter: the --dry-run flag
  errexitArith,     \* converter: whether the running bash applies set -e to (( ))
  gi,               \* converter: index of project_dir in the outer loop
  si,               \* converter: index of jsonl in the inner loop
  cwd,              \* converter: the originating path of the current group
  project_count,
  converted_count,
  md_file,          \* converter: the output path computed last
  stdout,           \* converter: what the current run has printed
  exitStatus,       \* converter: exit status of the last finished run
  wrote,            \* history: <<gi, si, path>> of each document this run wrote
  atStart,          \* history: dirs and files when the current run started
  doneBefore,       \* history: an earlier run without --dry-run reached the summary
  made,             \* history: <<directory, originating path>> of each mkdir of a project
  convRuns,         \* history: converter runs started
  collections,      \* search engine: collection name |-> the documents it indexed
  contexts,         \* search engine: the collections with a context note
  recPc,            \* reconciler: "idle", "loop", "done"
  projects,         \* reconciler: the directories of CONVERT_DIR not yet visited
  existingCollections, \* reconciler: the names parsed from the listing
  created,
  recreated,
  issued,           \* history: collection name |-> the commands this reconciliation issued for it
  listFailed,       \* history: qmd collection list failed in this reconciliation
  failures,         \* history: commands of the search engine that have failed so far
  before,           \* history: the registered names when the reconciliation started
  recRuns,          \* history: reconciliations started
  mainPc,           \* installer: "idle", "step5" .. "step8", "complete", "failed"
  agentPc,          \* LaunchAgent: "idle", "convert", "embed", "done", "stopped"
  embedLog          \* history: the qmd embed invocations since the last converter start

convVars ==
  <<caller, convPc, DRY_RUN, errexitArith, gi, si, cwd, project_count,
    converted_count, md_file, stdout, exitStatus, wrote, atStart, doneBefore,
    made, convRuns>>

fsVars == <<dirs, files>>

qmdVars == <<collections, contexts>>

recVars ==
  <<recPc, projects, existingCollections, created, recreated, issued,
    listFailed, failures, before, recRuns>>

chainVars == <<mainPc, agentPc, embedLog>>

vars == <<logs, today, fsVars, convVars, qmdVars, recVars, chainVars>>

(* ------------------- the converter's pure computations ---------------- *)

\* Line 42: head -5 | jq -r 'select(.cwd != null) | .cwd' 2>/dev/null | head -1
\* jq prints the cwd of every line before the first one it cannot parse.
ExtractCwd(lines) ==
  LET k == Min(HeadLines, Len(lines))
      bad == {i \in 1..k : ~lines[i].ok}
      stop == IF bad = {} THEN k + 1 ELSE MinOf(bad)
      hits == {i \in 1..(stop - 1) : lines[i].cwd # Null}
  IN IF hits = {} THEN "" ELSE lines[MinOf(hits)].cwd[1]

\* Mutant of Excluded: the list read as A || (B && ...), which skips only
\* a path with the second marker and without the first.
Excluded_OrBindsLast(path) ==
  ~Contains(path, WorktreeMarker) /\ Contains(path, AgentMarker)

\* Line 44: [[ A ]] || [[ B ]] && { ...; continue; } groups as (A || B) && ...
Excluded(path) ==
  Contains(path, WorktreeMarker) \/ Contains(path, AgentMarker)

\* Line 51: head -1 "$jsonl"; no line at all for an empty file.
FirstLine(lines) == IF Len(lines) = 0 THEN <<>> ELSE <<lines[1]>>

\* Lines 52-54: jq exits non-zero on a first line that is not JSON, which
\* under set -e ends the script (the assignment's status is jq's).
FirstLineFails(lines) ==
  FirstLine(lines) # <<>> /\ ~FirstLine(lines)[1].ok

\* Line 52: jq -r '.sessionId // empty'
SessionId(lines) ==
  IF FirstLine(lines) = <<>> \/ FirstLine(lines)[1].sessionId = Null
  THEN "" ELSE FirstLine(lines)[1].sessionId[1]

\* Line 53: jq -r '.slug // "unknown"'; no output at all without a line.
SessionSlug(lines) ==
  IF FirstLine(lines) = <<>> THEN ""
  ELSE IF FirstLine(lines)[1].slug = Null THEN "unknown"
  ELSE FirstLine(lines)[1].slug[1]

\* Lines 54-55: jq -r '.timestamp[0:10] // empty', else date +%Y-%m-%d
SessionDate(lines, day) ==
  IF FirstLine(lines) = <<>> \/ FirstLine(lines)[1].timestamp = Null
  THEN Day[day]
  ELSE IF Prefix(FirstLine(lines)[1].timestamp[1], DateLen) = "" THEN Day[day]
  ELSE Prefix(FirstLine(lines)[1].timestamp[1], DateLen)

\* Mutant of ShortId: the id cut one character short.
ShortId_OffByOne(session_id, jsonl) ==
  IF Prefix(session_id, ShortIdLen - 1) # ""
  THEN Prefix(session_id, ShortIdLen - 1)
  ELSE Prefix(BasenameNoExt(jsonl, ".jsonl"), ShortIdLen - 1)

\* Lines 57-58: the first 8 characters of the session id, else of the file's
\* stem.
ShortId(session_id, jsonl) ==
  IF Prefix(session_id, ShortIdLen) # ""
  THEN Prefix(session_id, ShortIdLen)
  ELSE Prefix(BasenameNoExt(jsonl, ".jsonl"), ShortIdLen)

\* Line 59
MdFile(project_convert_dir, session_date, short_id) ==
  project_convert_dir \o "/" \o session_date \o "-" \o short_id \o ".md"

\* Lines 45-46
ProjectConvertDir(path) == CONVERT_DIR \o "/" \o Basename(path)

JsonlPath(entry, s) == PROJECTS_DIR \o "/" \o entry.dir \o "/" \o entry.sessions[s].name

\* Line 70, the assistant branch: map(.text // empty) | join("\n")
RECURSIVE Texts(_)
Texts(frags) ==
  IF frags = <<>> THEN <<>>
  ELSE (IF Head(frags) = Null THEN <<>> ELSE <<Head(frags)[1]>>)
       \o Texts(Tail(frags))

JoinedLines(texts) == IF texts = <<>> THEN <<"">> ELSE texts

\* Line 70, one input of the jq program: the text it prints and whether it
\* raises an error (a string cannot be added to an array).
JqEvent(e) ==
  IF e.type = "user"
  THEN IF e.content.kind = "arr"
       THEN [out |-> <<>>, err |-> TRUE]
       ELSE [out |-> <<"## User", "", e.content.str, "">>, err |-> FALSE]
  ELSE IF e.type = "assistant"
  THEN [out |-> <<"## Assistant", "">>
                \o (IF e.content.kind = "arr"
                    THEN JoinedLines(Texts(e.content.frags))
                    ELSE <<e.content.str>>)
                \o <<"">>,
        err |-> FALSE]
  ELSE [out |-> <<>>, err |-> FALSE]

\* Line 70, the whole file: jq stops at the first line it cannot parse and
\* goes on after an error of the program; its status is non-zero in both
\* cases.
RECURSIVE JqBody(_)
JqBody(lines) ==
  IF lines = <<>> THEN [out |-> <<>>, err |-> FALSE]
  ELSE IF ~Head(lines).ok THEN [out |-> <<>>, err |-> TRUE]
  ELSE LET h == JqEvent(Head(lines))
           t == JqBody(Tail(lines))
       IN [out |-> h.out \o t.out, err |-> h.err \/ t.err]

ErrorMarker(jsonl) == "Error parsing " \o jsonl

\* Lines 61-71: the document written to md_file.
Render(lines, path, jsonl, day) ==
  <<"# Claude Session: " \o SessionSlug(lines),
    "",
    "- **Date**: " \o SessionDate(lines, day),
    "- **Session ID**: " \o SessionId(lines),
    "- **Project**: " \o path,
    "",
    "---",
    "">>
  \o JqBody(lines).out
  \o (IF JqBody(lines).err THEN <<ErrorMarker(jsonl)>> ELSE <<>>)

\* ((n++)) has status 1 when n was 0; bash from 4.1 on applies set -e to it,
\* bash 3.2 (macOS /bin/bash) does not.
IncrementExits(shell, n) == shell /\ n = 0

\* Lines 26-31: the arguments the script accepts.
ArgLists == {<<>>, <<"--dry-run">>, <<"--verbose">>}

ArgsRejected(args) == \E i \in 1..Len(args) : args[i] # "--dry-run"

ArgsDryRun(args) == \E i \in 1..Len(args) : args[i] = "--dry-run"

\* mkdir -p
MkdirP(ds, d) == ds \cup {d}

\* { ... } > "$md_file"
WriteFile(fs, p, content) ==
  [q \in DOMAIN fs \cup {p} |-> IF q = p THEN content ELSE fs[q]]

(* --------------------------- converter steps -------------------------- *)

ConvRunning == convPc \in {"group", "session"}

\* main, lines 681-705: the installer runs the converter and then, whatever
\* the converter's exit status, createQmdCollections.
InstallerAtStep6 ==
  caller = "installer" /\ convPc \in {"done", "aborted"} /\ recPc = "idle"

\* Line 255: the LaunchAgent's command list is between two of its commands.
AgentRunning == agentPc \in {"convert", "embed"}

\* One pipeline step at a time: converter runs, the installer's steps and the
\* LaunchAgent's commands do not overlap.
Busy ==
  \/ ConvRunning \/ InstallerAtStep6 \/ recPc = "loop"
  \/ mainPc \in {"step7", "step8"}
  \/ AgentRunning

\* Lines 23-34: argument parsing, mkdir -p "$CONVERT_DIR", the counters.
\* The shell that runs the script is the caller's: bash "$scriptPath" without
\* arguments in runConverter (lines 433-444), #!/bin/bash from the LaunchAgent
\* or a terminal.
ConvStart(who, args, shell) ==
  /\ ~Busy
  /\ convRuns < MaxConvRuns
  /\ who = "installer" => args = <<>> /\ recRuns < MaxInstalls
  /\ who = "agent" => args = <<>>
  /\ mainPc' = (IF who = "installer" THEN "step5" ELSE "idle")
  /\ agentPc' = (IF who = "agent" THEN "convert" ELSE "idle")
  /\ embedLog' = <<>>
  /\ caller' = who
  /\ convRuns' = convRuns + 1
  /\ DRY_RUN' = ArgsDryRun(args)
  /\ errexitArith' = (IF ArgsRejected(args) THEN errexitArith ELSE shell)
  /\ atStart' = [dirs |-> dirs, files |-> files]
  /\ doneBefore' = (doneBefore \/ (convPc = "done" /\ ~DRY_RUN))
  /\ wrote' = {}
  /\ project_count' = 0
  /\ converted_count' = 0
  /\ gi' = 1
  /\ si' = 1
  /\ cwd' = ""
  /\ md_file' = ""
  /\ IF ArgsRejected(args)
     THEN /\ stdout' = <<[kind |-> "usage"]>>
          /\ convPc' = "aborted"
          /\ exitStatus' = 1
          /\ UNCHANGED dirs
     ELSE /\ stdout' = <<>>
          /\ convPc' = "group"
          /\ exitStatus' = exitStatus
          /\ dirs' = MkdirP(dirs, CONVERT_DIR)
  /\ recPc' = "idle"
  /\ UNCHANGED <<logs, today, files, made, qmdVars, projects,
                 existingCollections, created, recreated, issued, listFailed,
                 failures, before, recRuns>>

\* Lines 35-48: one iteration of the outer loop up to the inner loop.
\* find | head -1 yields the files in directory order: any file can be first.
ConvGroup ==
  /\ convPc = "group"
  /\ gi <= Len(logs)
  /\ LET entry == logs[gi]
         jsonl_count == Len(entry.sessions)
     IN IF ~entry.isDir \/ jsonl_count = 0
        THEN /\ gi' = gi + 1
             /\ UNCHANGED <<convPc, project_count, cwd, stdout, exitStatus, dirs,
                            made>>
        ELSE IF IncrementExits(errexitArith, project_count)
        THEN /\ project_count' = project_count + 1
             /\ convPc' = "aborted"
             /\ exitStatus' = 1
             /\ UNCHANGED <<gi, cwd, stdout, dirs, made>>
        ELSE \E first \in 1..jsonl_count :
               LET path == ExtractCwd(entry.sessions[first].lines)
               IN /\ project_count' = project_count + 1
                  /\ cwd' = path
                  /\ exitStatus' = exitStatus
                  /\ IF path = ""
                     THEN /\ stdout' = Append(stdout,
                                 [kind |-> "warning", jsonl |-> JsonlPath(entry, first)])
                          /\ gi' = gi + 1
                          /\ UNCHANGED <<convPc, dirs, made>>
                     ELSE IF Excluded(path)
                     THEN /\ stdout' = Append(stdout,
                                 [kind |-> "skipping", cwd |-> path])
                          /\ gi' = gi + 1
                          /\ UNCHANGED <<convPc, dirs, made>>
                     ELSE /\ dirs' = MkdirP(dirs, ProjectConvertDir(path))
                          /\ made' = made \cup {<<ProjectConvertDir(path), path>>}
                          /\ stdout' = Append(stdout,
                                 [kind |-> "processing", project |-> Basename(path),
                                  sessions |-> jsonl_count])
                          /\ convPc' = "session"
                          /\ gi' = gi
  /\ si' = 1
  /\ UNCHANGED <<logs, today, files, caller, DRY_RUN, errexitArith,
                 converted_count, md_file, wrote, atStart, doneBefore, convRuns>>
  /\ UNCHANGED <<qmdVars, recVars, chainVars>>

\* Lines 49-73: one iteration of the inner loop.
ConvSession ==
  /\ convPc = "session"
  /\ si <= Len(logs[gi].sessions)
  /\ LET entry == logs[gi]
         lines == entry.sessions[si].lines
         jsonl == JsonlPath(entry, si)
         session_date == SessionDate(lines, today)
         short_id == ShortId(SessionId(lines), jsonl)
         md == MdFile(ProjectConvertDir(cwd), session_date, short_id)
     IN IF FirstLineFails(lines)
        THEN /\ convPc' = "aborted"
             /\ exitStatus' = 2
             /\ UNCHANGED <<si, md_file, stdout, files, wrote, converted_count>>
        ELSE /\ md_file' = md
             /\ IF DRY_RUN
                THEN /\ stdout' = Append(stdout,
                            [kind |-> "would", jsonl |-> Basename(jsonl),
                             md |-> Basename(md)])
                     /\ si' = si + 1
                     /\ UNCHANGED <<convPc, exitStatus, files, wrote, converted_count>>
                ELSE /\ files' = WriteFile(files, md, Render(lines, cwd, jsonl, today))
                     /\ wrote' = wrote \cup {<<gi, si, md>>}
                     /\ converted_count' = converted_count + 1
                     /\ IF IncrementExits(errexitArith, converted_count)
                        THEN /\ convPc' = "aborted"
                             /\ exitStatus' = 1
                             /\ UNCHANGED si
                        ELSE /\ si' = si + 1
                             /\ UNCHANGED <<convPc, exitStatus>>
                     /\ UNCHANGED stdout
  /\ UNCHANGED <<logs, today, dirs, caller, DRY_RUN, errexitArith, gi, cwd,
                 project_count, atStart, doneBefore, made, convRuns>>
  /\ UNCHANGED <<qmdVars, recVars, chainVars>>

\* Line 74 and the step to the next project_dir.
ConvEndGroup ==
  /\ convPc = "session"
  /\ si > Len(logs[gi].sessions)
  /\ stdout' = Append(stdout,
        [kind |-> "converted", sessions |-> Len(logs[gi].sessions),
         dir |-> ProjectConvertDir(cwd)])
  /\ gi' = gi + 1
  /\ convPc' = "group"
  /\ UNCHANGED <<logs, today, dirs, files, caller, DRY_RUN, errexitArith, si,
                 cwd, project_count, converted_count, md_file, exitStatus, wrote,
                 atStart, doneBefore, made, convRuns>>
  /\ UNCHANGED <<qmdVars, recVars, chainVars>>

\* Lines 76-80
ConvSummary ==
  /\ convPc = "group"
  /\ gi > Len(logs)
  /\ stdout' = Append(stdout,
        [kind |-> "summary", projects |-> project_count,
         sessions |-> converted_count])
  /\ convPc' = "done"
  /\ exitStatus' = 0
  /\ UNCHANGED <<logs, today, dirs, files, caller, DRY_RUN, errexitArith, gi,
                 si, cwd, project_count, converted_count, md_file, wrote, atStart,
                 doneBefore, made, convRuns>>
  /\ UNCHANGED <<qmdVars, recVars, chainVars>>

\* The wall clock reaches the next day between two converter runs.
Tick ==
  /\ ~Busy
  /\ 0 < convRuns /\ convRuns < MaxConvRuns
  /\ today < MaxDays
  /\ today' = today + 1
  /\ UNCHANGED <<logs, fsVars, convVars, qmdVars, recVars, chainVars>>

(* ------------------------- the search engine -------------------------- *)

\* Line 469
CollectionName(project) == "claude-" \o project \o "-conversations"

\* qmd collection list: one line per collection in the format of the comment
\* at line 462, "claude-foo-conversations (qmd://...)", with a heading and
\* detail lines around them.
ListingLine(name) == name \o " (qmd://" \o name \o "/)"

ListingOutput(colls) ==
  {"Collections (" \o "n" \o "):", "", "  Pattern:  **/*.md"}
  \cup {ListingLine(name) : name \in DOMAIN colls}

IsSpace(c) == c \in {" ", "\t"}

\* Line 464: line.match(/^(claude-\S+-conversations)\s+\(/)?.[1]
\* The captured text holds no white space and is followed by white space, so
\* it is the line up to its first white space.
MatchCollection(line) ==
  LET spaces == {i \in 1..Len(line) : IsSpace(Char(line, i))}
      w == MinOf(spaces)
      name == SubSeq(line, 1, w - 1)
      rest == {i \in w..Len(line) : ~IsSpace(Char(line, i))}
  IN IF spaces = {} THEN Null
     ELSE IF /\ Len(name) > Len("claude-") + Len("-conversations")
             /\ Prefix(name, Len("claude-")) = "claude-"
             /\ EndsWith(name, "-conversations")
             /\ rest # {}
             /\ Char(line, MinOf(rest)) = "("
     THEN Some(name)
     ELSE Null

\* Lines 463-465
ParseListing(output) ==
  {MatchCollection(line)[1] : line \in {l \in output : MatchCollection(l) # Null}}

\* Lines 454-456: the entries of CONVERT_DIR that are directories.
ReadProjects(ds) == {Basename(d) : d \in ds \ {CONVERT_DIR}}

\* The documents of a project directory, as collection add snapshots them.
Documents(fs, project) ==
  {p \in DOMAIN fs : Prefix(p, Len(CONVERT_DIR \o "/" \o project \o "/"))
                       = CONVERT_DIR \o "/" \o project \o "/"}

(* -------------------------- reconciler steps -------------------------- *)

\* Lines 447-466: the counters, the directory listing and the parsed
\* collection listing; a failing qmd collection list leaves the list empty.
RecStart(listOk) ==
  /\ InstallerAtStep6
  /\ recRuns' = recRuns + 1
  /\ created' = 0
  /\ recreated' = 0
  /\ issued' = <<>>
  /\ ~listOk => CONVERT_DIR \in dirs /\ failures < MaxFailures
  /\ failures' = IF listOk THEN failures ELSE failures + 1
  /\ listFailed' = ~listOk
  /\ before' = DOMAIN collections
  /\ IF CONVERT_DIR \notin dirs
     THEN /\ recPc' = "done"
          /\ mainPc' = "step7"
          /\ projects' = {}
          /\ existingCollections' = {}
     ELSE /\ recPc' = "loop"
          /\ mainPc' = "step6"
          /\ projects' = ReadProjects(dirs)
          /\ existingCollections' =
               IF listOk THEN ParseListing(ListingOutput(collections)) ELSE {}
  /\ UNCHANGED <<logs, today, fsVars, convVars, qmdVars, agentPc, embedLog>>

\* The command of one loop iteration that throws, if any.
Outcomes == {"ok", "removeFails", "addFails", "contextFails"}

\* A command and whether it succeeded.
Cmd(cmd, name, ok) == [cmd |-> cmd, name |-> name, ok |-> ok]

\* A command of the loop has failed in this reconciliation.
LoopFailed(log) ==
  \E n \in DOMAIN log : \E i \in 1..Len(log[n]) : ~log[n][i].ok

RECURSIVE SeqOf(_)
SeqOf(S) ==
  IF S = {} THEN <<>>
  ELSE LET x == CHOOSE y \in S : TRUE IN <<x>> \o SeqOf(S \ {x})

\* Mutant of Removals: the listed collections without a project directory
\* are removed as well (stale collections pruned).
Removals_PruneStale(exists, collectionName, existing, names) ==
  (IF exists THEN <<collectionName>> ELSE <<>>) \o SeqOf(existing \ names)

\* Lines 472 and 476-478: the collection removed in this iteration.
Removals(exists, collectionName, existing, names) ==
  IF exists THEN <<collectionName>> ELSE <<>>

\* Lines 476-481: the commands issued up to the one that throws.
Commands(removals, name, outcome) ==
  [i \in 1..Len(removals) |->
     Cmd("remove", removals[i], outcome # "removeFails")]
  \o (IF outcome = "removeFails" THEN <<>>
      ELSE <<Cmd("add", name, outcome # "addFails")>>)
  \o (IF outcome \in {"removeFails", "addFails"} THEN <<>>
      ELSE <<Cmd("context", name, outcome # "contextFails")>>)

\* Lines 483-487: the counters after an iteration whose commands all
\* succeeded; the catch at 488 skips them.
NewCreated(n, exists, outcome) ==
  IF outcome = "ok" /\ ~exists THEN n + 1 ELSE n

\* Mutant of NewRecreated: every successful iteration counts as a recreate.
NewRecreated_Always(n, exists, outcome) ==
  IF outcome = "ok" THEN n + 1 ELSE n

NewRecreated(n, exists, outcome) ==
  IF outcome = "ok" /\ exists THEN n + 1 ELSE n

\* Mutant of Remaining: no try/catch, the error of a command ends the loop.
Remaining_Throws(todo, project, outcome) ==
  IF outcome = "ok" THEN todo \ {project} ELSE {}

\* Lines 488-490: the catch swallows the error and the loop goes on with the
\* directories left.
Remaining(todo, project, outcome) == todo \ {project}

\* The search engine after one command: remove drops the named collection,
\* add registers it with the directory's documents.
RECURSIVE Apply(_, _, _)
Apply(colls, cmds, docs) ==
  IF cmds = <<>> THEN colls
  ELSE LET c == Head(cmds)
           next == IF ~c.ok \/ c.cmd = "context" THEN colls
                   ELSE IF c.cmd = "remove"
                   THEN [n \in DOMAIN colls \ {c.name} |-> colls[n]]
                   ELSE [n \in DOMAIN colls \cup {c.name} |->
                           IF n = c.name THEN docs ELSE colls[n]]
       IN Apply(next, Tail(cmds), docs)

\* Lines 468-491: one iteration of the loop, with the try/catch around the
\* commands. readdirSync yields the directories in any order.
RecProject(project, outcome) ==
  /\ recPc = "loop"
  /\ project \in projects
  /\ LET collectionName == CollectionName(project)
         exists == collectionName \in existingCollections
         names == {CollectionName(q) : q \in ReadProjects(dirs)}
         removals == Removals(exists, collectionName, existingCollections, names)
         cmds == Commands(removals, collectionName, outcome)
     IN /\ outcome = "removeFails" => exists
        /\ outcome # "ok" => failures < MaxFailures
        /\ failures' = IF outcome = "ok" THEN failures ELSE failures + 1
        /\ issued' = [n \in DOMAIN issued \cup {collectionName} |->
                        IF n = collectionName THEN cmds ELSE issued[n]]
        /\ collections' = Apply(collections, cmds, Documents(files, project))
        /\ contexts' = IF outcome = "ok"
                       THEN contexts \cup {collectionName} ELSE contexts
        /\ recreated' = NewRecreated(recreated, exists, outcome)
        /\ created' = NewCreated(created, exists, outcome)
  /\ projects' = Remaining(projects, project, outcome)
  /\ UNCHANGED <<logs, today, fsVars, convVars, recPc, existingCollections,
                 listFailed, before, recRuns, chainVars>>

\* Line 493
RecReturn ==
  /\ recPc = "loop"
  /\ projects = {}
  /\ recPc' = "done"
  /\ mainPc' = "step7"
  /\ UNCHANGED <<logs, today, fsVars, convVars, qmdVars, projects,
                 existingCollections, created, recreated, issued, before,
                 listFailed, failures, recRuns, agentPc, embedLog>>

(* ----------------------- embeddings and completion -------------------- *)

\* qmd embed returns, exits with an error, or is killed at the timeout.
EmbedOutcomes == {"ok", "fails", "timeout"}

Embed(by, outcome) == [by |-> by, outcome |-> outcome]

\* Mutant of AfterEmbed: no try/catch around qmd embed, its error ends main.
AfterEmbed_Throws(outcome) == IF outcome = "ok" THEN "step8" ELSE "failed"

\* Lines 496-502 and 707-714: generateEmbeddings swallows the error of
\* qmd embed, main goes on with step 8.
AfterEmbed(outcome) == "step8"

\* Lines 707-714, step 7 of main.
GenerateEmbeddings(outcome) ==
  /\ mainPc = "step7"
  /\ embedLog' = Append(embedLog, Embed("installer", outcome))
  /\ mainPc' = AfterEmbed(outcome)
  /\ UNCHANGED <<logs, today, fsVars, convVars, qmdVars, recVars, agentPc>>

\* Lines 716-770: step 8 and the completion banner. updateClaudeMd is not in
\* a try block: an error of its file operations rejects main (lines 772-775).
ConfigureClaudeMd(throws) ==
  /\ mainPc = "step8"
  /\ mainPc' = (IF throws THEN "failed" ELSE "complete")
  /\ UNCHANGED <<logs, today, fsVars, convVars, qmdVars, recVars, agentPc,
                 embedLog>>

(* --------------------------- the LaunchAgent -------------------------- *)

\* qmd update re-indexes the registered collections: each collection with a
\* project directory gets the directory's documents, no collection is added
\* or removed.
QmdUpdate(colls, ds, fs) ==
  [n \in DOMAIN colls |->
     LET owners == {q \in ReadProjects(ds) : CollectionName(q) = n}
     IN IF owners = {} THEN colls[n]
        ELSE Documents(fs, CHOOSE q \in owners : TRUE)]

\* Line 255: convert-claude-history.sh && qmd update && ...; the list stops
\* at the first command with a non-zero exit status.
AgentUpdate(ok) ==
  /\ agentPc = "convert"
  /\ convPc \in {"done", "aborted"}
  /\ ~ok => failures < MaxFailures
  /\ IF exitStatus # 0
     THEN /\ agentPc' = "stopped"
          /\ ok
          /\ UNCHANGED <<collections, failures>>
     ELSE IF ok
     THEN /\ agentPc' = "embed"
          /\ collections' = QmdUpdate(collections, dirs, files)
          /\ UNCHANGED failures
     ELSE /\ agentPc' = "stopped"
          /\ failures' = failures + 1
          /\ UNCHANGED collections
  /\ UNCHANGED <<logs, today, fsVars, convVars, contexts, recPc, projects,
                 existingCollections, created, recreated, issued, listFailed,
                 before, recRuns, mainPc, embedLog>>

\* Line 255: ... && qmd embed
AgentEmbed(outcome) ==
  /\ agentPc = "embed"
  /\ embedLog' = Append(embedLog, Embed("agent", outcome))
  /\ agentPc' = "done"
  /\ UNCHANGED <<logs, today, fsVars, convVars, qmdVars, recVars, mainPc>>


Init ==
  /\ \E sc \in Scenarios :
       /\ logs = sc[1]
       /\ collections = [name \in {CollectionName(q) : q \in sc[2]} |-> {}]
  /\ today = 1
  /\ dirs = {}
  /\ files = <<>>
  /\ caller = "user"
  /\ convPc = "idle"
  /\ DRY_RUN = FALSE
  /\ errexitArith = FALSE
  /\ gi = 1
  /\ si = 1
  /\ cwd = ""
  /\ project_count = 0
  /\ converted_count = 0
  /\ md_file = ""
  /\ stdout = <<>>
  /\ exitStatus = 0
  /\ wrote = {}
  /\ atStart = [dirs |-> {}, files |-> <<>>]
  /\ doneBefore = FALSE
  /\ made = {}
  /\ convRuns = 0
  /\ contexts = {}
  /\ recPc = "idle"
  /\ projects = {}
  /\ existingCollections = {}
  /\ created = 0
  /\ recreated = 0
  /\ issued = <<>>
  /\ failures = 0
  /\ listFailed = FALSE
  /\ before = {}
  /\ recRuns = 0
  /\ mainPc = "idle"
  /\ agentPc = "idle"
  /\ embedLog = <<>>

Next ==
  \/ \E who \in {"installer", "user", "agent"}, args \in ArgLists, shell \in BOOLEAN :
       ConvStart(who, args, shell)
  \/ ConvGroup
  \/ ConvSession
  \/ ConvEndGroup
  \/ ConvSummary
  \/ \E listOk \in BOOLEAN : RecStart(listOk)
  \/ \E project \in projects, outcome \in Outcomes : RecProject(project, outcome)
  \/ RecReturn
  \/ \E outcome \in EmbedOutcomes : GenerateEmbeddings(outcome)
  \/ \E throws \in BOOLEAN : ConfigureClaudeMd(throws)
  \/ \E ok \in BOOLEAN : AgentUpdate(ok)
  \/ \E outcome \in EmbedOutcomes : AgentEmbed(outcome)
  \/ Tick

Spec == Init /\ [][Next]_vars

(* ---------------------- vocabulary of the properties ------------------ *)

\* A converter run that got past its argument parsing has ended.
RunEnded ==
  /\ convPc \in {"done", "aborted"}
  /\ stdout = <<>> \/ stdout[1].kind # "usage"

HasMalformedLine(session) ==
  \E i \in 1..Len(session.lines) : ~session.lines[i].ok

\* A project with several sessions of which exactly one is malformed.
FaultProject(entry) ==
  /\ entry.isDir
  /\ Len(entry.sessions) >= 2
  /\ Cardinality({s \in 1..Len(entry.sessions) :
                    HasMalformedLine(entry.sessions[s])}) = 1

HasErrorMarker(content) ==
  \E i \in 1..Len(content) :
    Prefix(content[i], Len("Error parsing")) = "Error parsing"

\* The documents the current run wrote for session s of group g.
WrittenFor(g, s) == {w \in wrote : w[1] = g /\ w[2] = s}

(* ------------------------------- C1 ----------------------------------- *)

\* C1 (as claimed): when a run without --dry-run has ended, every session
\* of a project with one malformed session has its document, the malformed
\* session's document holds the error marker, and the run was not aborted.
\* Stated for the shell in which (( )) never ends the script, so that what
\* refutes it is the malformed line alone.
C1_FaultIsolation ==
  \A g \in 1..Len(logs) :
    (RunEnded /\ ~DRY_RUN /\ ~errexitArith /\ FaultProject(logs[g])) =>
      /\ convPc = "done"
      /\ \A s \in 1..Len(logs[g].sessions) :
           \E w \in WrittenFor(g, s) :
             HasMalformedLine(logs[g].sessions[s]) => HasErrorMarker(files[w[3]])

(* ------------------------------- C2 ----------------------------------- *)

\* C2 (as claimed): during and after a run with --dry-run the directories
\* and the files are those that existed when the run started.
C2_DryRunPurity ==
  (DRY_RUN /\ convPc \in {"group", "session", "done", "aborted"}) =>
    /\ dirs = atStart.dirs
    /\ files = atStart.files

(* ------------------------------- C3 ----------------------------------- *)

\* C3 (as claimed): a complete run without --dry-run that follows a complete
\* run without --dry-run on the same logs leaves the output files and their
\* contents exactly as it found them.
C3_Idempotent ==
  (convPc = "done" /\ ~DRY_RUN /\ doneBefore) => files = atStart.files

(* ------------------------------- C4 ----------------------------------- *)

\* The session of the naming fixture: first event dated 2024-03-01 with
\* session id abcdef1234.
NamingFixture(session) ==
  /\ session.lines # <<>>
  /\ session.lines[1].ok
  /\ session.lines[1].sessionId = <<"abcdef1234">>
  /\ session.lines[1].timestamp # <<>>
  /\ SubSeq(session.lines[1].timestamp[1], 1, 10) = "2024-03-01"

\* The file names computed for the naming fixture: of the documents written,
\* and of the name computed last in the inner loop (the one a dry run reports).
NamedAs(filename) ==
  /\ \A w \in wrote :
       NamingFixture(logs[w[1]].sessions[w[2]]) => Basename(w[3]) = filename
  /\ (convPc = "session" /\ si > 1 /\ NamingFixture(logs[gi].sessions[si - 1]))
       => Basename(md_file) = filename

\* C4 (amended): for the session dated 2024-03-01 with id abcdef1234 the
\* converter computes the file name 2024-03-01-abcdef12.md, the id cut to its
\* first 8 characters.
C4_NamingEightChars == NamedAs("2024-03-01-abcdef12.md")

\* C4 (as claimed): the file name is 2024-03-01-abcdef1.md.
C4_NamingAsClaimed == NamedAs("2024-03-01-abcdef1.md")

\* The fixture's document has been written.
C4_Witness ==
  \E w \in wrote :
    /\ NamingFixture(logs[w[1]].sessions[w[2]])
    /\ w[3] \in DOMAIN files

(* ------------------------------- C5 ----------------------------------- *)

\* The project directories the reconciliation saw (no step of it changes
\* the file system).
RecProjects == ReadProjects(dirs)

\* The collections this reconciliation removed first, and those it added
\* without a remove.
RemovedFirst == {n \in DOMAIN issued : issued[n][1].cmd = "remove"}

AddedFirst == {n \in DOMAIN issued : issued[n][1].cmd = "add"}

AllSucceeded(n) == \A i \in 1..Len(issued[n]) : issued[n][i].ok

HasWhiteSpace(str) == \E i \in 1..Len(str) : Char(str, i) \in {" ", "\t"}

\* 2 collections registered, 3 project directories with content, exactly 1
\* of them with a registered collection of its name, no command failed.
C5_Scenario ==
  /\ recPc = "done"
  /\ ~listFailed
  /\ ~LoopFailed(issued)
  /\ Cardinality(before) = 2
  /\ Cardinality(RecProjects) = 3
  /\ \A p \in RecProjects : Documents(files, p) # {}
  /\ Cardinality({p \in RecProjects : CollectionName(p) \in before}) = 1

C5_Overlap == CHOOSE p \in RecProjects : CollectionName(p) \in before

\* C5 (amended): in that scenario the run performs exactly 2 creates and 1
\* recreate (created = 2, recreated = 1) when the listing line of the
\* overlapping collection matches the pattern; when it does not (a project
\* name with white space) the run performs 3 creates and no recreate.
C5_TwoCreatesOneRecreate ==
  C5_Scenario =>
    /\ Cardinality(AddedFirst) = created
    /\ Cardinality(RemovedFirst) = recreated
    /\ IF HasWhiteSpace(C5_Overlap)
       THEN created = 3 /\ recreated = 0
       ELSE created = 2 /\ recreated = 1

\* C5 (as claimed): created = 1 and recreated = 1.
C5_AsClaimed == C5_Scenario => (created = 1 /\ recreated = 1)

C5_Witness == C5_Scenario /\ created = 2 /\ recreated = 1

(* ------------------------------- C6 ----------------------------------- *)

\* C6 (as claimed): a reconciliation issues collection add only for project
\* directories that hold at least one document.
C6_NoCollectionForEmptyDir ==
  recPc \in {"loop", "done"} =>
    \A p \in RecProjects :
      (/\ CollectionName(p) \in DOMAIN issued
       /\ \E i \in 1..Len(issued[CollectionName(p)]) :
            issued[CollectionName(p)][i].cmd = "add")
        => Documents(files, p) # {}

(* ------------------------------- C7 ----------------------------------- *)

\* C7 (as claimed): a collection registered when the reconciliation starts
\* is removed before it is added and counted as recreated; one that is not
\* registered is added without a remove and counted as created.
C7_RemoveRegisteredFirst ==
  recPc \in {"loop", "done"} =>
    /\ \A n \in DOMAIN issued :
         issued[n][1].cmd = (IF n \in before THEN "remove" ELSE "add")
    /\ recreated = Cardinality({n \in DOMAIN issued : n \in before /\ AllSucceeded(n)})
    /\ created = Cardinality({n \in DOMAIN issued : n \notin before /\ AllSucceeded(n)})

(* ------------------------------- C8 ----------------------------------- *)

\* C8: whichever command fails, the loop goes on: the directories attempted
\* so far are exactly those no longer left, none is left when the function
\* returns, and the counts it returns are those of the directories whose
\* commands all succeeded.
C8_AllAttempted ==
  recPc \in {"loop", "done"} =>
    /\ {p \in RecProjects : CollectionName(p) \in DOMAIN issued}
         = RecProjects \ projects
    /\ recPc = "done" => projects = {}
    /\ created + recreated
         = Cardinality({n \in DOMAIN issued : AllSucceeded(n)})

\* A command failed for one of three directories, all three were attempted
\* and the other two are counted.
C8_Witness ==
  /\ recPc = "done"
  /\ LoopFailed(issued)
  /\ Cardinality(RecProjects) = 3
  /\ Cardinality(DOMAIN issued) = 3
  /\ created + recreated = 2

(* ------------------------------- C9 ----------------------------------- *)

\* A registered collection whose name is not that of a project directory.
Stale(n) == n \notin {CollectionName(p) : p \in RecProjects}

\* C9: no step removes a stale collection or changes what it indexes.
C9_StaleUntouched ==
  [][\A n \in DOMAIN collections :
       Stale(n) => (n \in DOMAIN collections' /\ collections'[n] = collections[n])]_vars

\* A reconciliation that removed and added again another collection has
\* returned, and the stale collection is still registered.
C9_Witness ==
  /\ recPc = "done"
  /\ recreated > 0
  /\ "claude-old-conversations" \in before
  /\ Stale("claude-old-conversations")
  /\ "claude-old-conversations" \in DOMAIN collections

(* ------------------------------- C10 ---------------------------------- *)

HasMarker(path) ==
  Contains(path, ".ralphy-worktrees") \/ Contains(path, "/agent-")

\* The originating paths find | head -1 can yield for a group.
GroupPaths(entry) ==
  {ExtractCwd(entry.sessions[s].lines) : s \in 1..Len(entry.sessions)}

DisposableGroup(entry) ==
  /\ entry.isDir
  /\ Len(entry.sessions) > 0
  /\ \A path \in GroupPaths(entry) : HasMarker(path)

RegularGroup(entry) ==
  /\ entry.isDir
  /\ Len(entry.sessions) > 0
  /\ \A path \in GroupPaths(entry) : path # "" /\ ~HasMarker(path)

\* C10: no document is written for a session of a disposable group and no
\* directory is made for its path; every project directory, every document
\* and every collection added goes back to a mkdir for a path without marker;
\* the run goes on after the group it skips, and a run without --dry-run that
\* reaches the summary has written every session of the regular groups.
C10_Exclusion ==
  /\ \A w \in wrote : ~DisposableGroup(logs[w[1]])
  /\ \A m \in made : ~HasMarker(m[2])
  /\ \A d \in dirs \ {CONVERT_DIR} : \E m \in made : m[1] = d
  /\ \A p \in DOMAIN files :
       \E m \in made : SubSeq(p, 1, Len(m[1]) + 1) = m[1] \o "/"
  /\ \A n \in DOMAIN issued : \A i \in 1..Len(issued[n]) :
       issued[n][i].cmd = "add" =>
         \E m \in made : issued[n][i].name = CollectionName(Basename(m[1]))
  /\ (stdout # <<>> /\ stdout[Len(stdout)].kind = "skipping") => convPc = "group"
  /\ (convPc = "done" /\ ~DRY_RUN) =>
       \A g \in 1..Len(logs) :
         RegularGroup(logs[g]) =>
           \A s \in 1..Len(logs[g].sessions) : WrittenFor(g, s) # {}

\* After two disposable groups were skipped, a later regular group was
\* converted, and the reconciliation added a collection for it alone.
C10_Witness ==
  /\ recPc = "done"
  /\ \E g \in 1..Len(logs), h \in 1..Len(logs) :
       /\ g < h
       /\ DisposableGroup(logs[g])
       /\ RegularGroup(logs[h])
       /\ WrittenFor(h, 1) # {}
  /\ \E k \in 1..Len(stdout) : stdout[k].kind = "skipping"
  /\ DOMAIN issued = {"claude-web-conversations"}
  /\ "claude-web-conversations" \in DOMAIN collections

(* ------------------------------- C11 ---------------------------------- *)

\* The projects for which the current converter run wrote a document.
ConvertedProjects ==
  {p \in ReadProjects(dirs) : \E w \in wrote : w[3] \in Documents(files, p)}

\* C11 (as claimed): when a run of the LaunchAgent has gone through all its
\* commands, every project it converted sessions of has a registered
\* collection claude-<project>-conversations.
C11_NewProjectsIndexed ==
  (agentPc = "done" /\ embedLog = <<Embed("agent", "ok")>>) =>
    \A p \in ConvertedProjects : CollectionName(p) \in DOMAIN collections

(* ------------------------------- C12 ---------------------------------- *)

\* C12 (as claimed): a converter run that made its output directory ends
\* with the summary, not with an abort.
C12_AlwaysSummary ==
  (RunEnded /\ ~errexitArith) =>
    /\ convPc = "done"
    /\ stdout # <<>> /\ stdout[Len(stdout)].kind = "summary"

(* ------------------------------- C13 ---------------------------------- *)

\* The qmd embed invocations of the installer in its current run.
InstallerEmbeds ==
  Cardinality({i \in 1..Len(embedLog) : embedLog[i].by = "installer"})

\* C13: the installer invokes qmd embed only when createQmdCollections has
\* returned, once; it has not invoked it up to step 7 and has invoked it
\* exactly once from step 8 on; whatever the outcome of qmd embed the run
\* goes on with step 8, and only step 8 can end it before completion.
C13_EmbedOnceAfterReconcile ==
  [][/\ InstallerEmbeds' > InstallerEmbeds =>
          /\ mainPc = "step7"
          /\ recPc = "done"
          /\ projects = {}
          /\ InstallerEmbeds' = InstallerEmbeds + 1
          /\ mainPc' = "step8"
     /\ mainPc' \in {"step5", "step6", "step7"} => InstallerEmbeds' = 0
     /\ mainPc' \in {"step8", "complete", "failed"} => InstallerEmbeds' = 1
     /\ (mainPc' = "failed" /\ mainPc # "failed") => mainPc = "step8"]_vars

\* After a reconciliation with a failed command, qmd embed ran into its
\* timeout and the installer completed.
C13_Witness ==
  /\ mainPc = "complete"
  /\ LoopFailed(issued)
  /\ Len(embedLog) = 1
  /\ embedLog[1].by = "installer"
  /\ embedLog[1].outcome = "timeout"

(* ------------------------------- C14 ---------------------------------- *)

\* One of the first 5 lines is an event with a non-empty cwd.
CarriesCwd(lines) ==
  \E i \in 1..Len(lines) :
    i <= 5 /\ lines[i].ok /\ lines[i].cwd # Null /\ lines[i].cwd[1] # ""

\* The first non-empty cwd of the first 5 lines.
FirstCwd(lines) ==
  LET hits == {i \in 1..Len(lines) :
                 i <= 5 /\ lines[i].ok /\ lines[i].cwd # Null /\ lines[i].cwd[1] # ""}
  IN lines[MinOf(hits)].cwd[1]

\* C14 (as claimed): a group is skipped with the warning only when none of
\* the first 5 lines of the representative session log carries a non-empty
\* cwd, and the originating path of a group that is processed is the first
\* non-empty cwd of those lines.
C14_CwdFromHead ==
  /\ \A k \in 1..Len(stdout) :
       stdout[k].kind = "warning" =>
         \A g \in 1..Len(logs) : \A s \in 1..Len(logs[g].sessions) :
           JsonlPath(logs[g], s) = stdout[k].jsonl =>
             ~CarriesCwd(logs[g].sessions[s].lines)
  /\ convPc = "session" =>
       \E s \in 1..Len(logs[gi].sessions) :
         /\ CarriesCwd(logs[gi].sessions[s].lines)
         /\ cwd = FirstCwd(logs[gi].sessions[s].lines)

(* ------------------------------- C15 ---------------------------------- *)

\* The output paths the current run wrote.
WrittenPaths == {w[3] : w \in wrote}

\* C15 (as claimed): in a run without --dry-run that reached the summary, no
\* two session logs wrote the same path, and the number of documents written
\* is the reported count of sessions converted.
C15_OneDocumentPerSession ==
  (convPc = "done" /\ ~DRY_RUN) =>
    /\ \A v \in wrote, w \in wrote :
         v[3] = w[3] => (v[1] = w[1] /\ v[2] = w[2])
    /\ Cardinality(WrittenPaths) = converted_count
    /\ stdout[Len(stdout)].sessions = Cardinality(WrittenPaths)

(* ------------------------------- C16 ---------------------------------- *)

\* C16 (as claimed): every collection registered when a reconciliation
\* starts is registered when it has returned.
C16_NoCollectionLost ==
  recPc = "done" => before \subseteq DOMAIN collections

(* ------------------------------- C17 ---------------------------------- *)

\* The collections this reconciliation removed and added again.
RemovedAndAdded ==
  {n \in DOMAIN issued :
     /\ \E i \in 1..Len(issued[n]) : issued[n][i].cmd = "remove" /\ issued[n][i].ok
     /\ \E i \in 1..Len(issued[n]) : issued[n][i].cmd = "add" /\ issued[n][i].ok}

\* C17 (as claimed): the returned created count is the number of collections
\* registered after the run and not before it, the returned recreated count
\* that of the collections the run removed and added again.
C17_CountsAccurate ==
  recPc = "done" =>
    /\ created = Cardinality(DOMAIN collections \ before)
    /\ recreated = Cardinality(RemovedAndAdded)

====
